---- MODULE Spec2Model ----
(***************************************************************************)
(* A model of src/zero_copy/input.rs: the cursors (&str, &[T], WithContext, *)
(* Stream), the parsing session InputRef with its markers and              *)
(* context-scoped sub-sessions, and the Emitter, as a state machine whose  *)
(* actions are the operations of the session, the cursor and the Emitter.  *)
(*                                                                         *)
(* Tokens are the numbers 1 and up; 0 stands for None.  A text is a        *)
(* sequence of scalars, scalar 1 being one byte long and every other       *)
(* scalar two bytes long, so that byte offsets and scalar indices differ.  *)
(* An error is 10 * n + d for the n-th emit of the parse, made by the      *)
(* session at depth d (for the n-th diagnostic of an Emitter, d = 0), so   *)
(* that a lost, a duplicated or a reordered error shows in the buffer.     *)
(* A reference into a slice is the place it points at.                     *)
(***************************************************************************)
EXTENDS Integers, Sequences, FiniteSets, TLC

VARIABLES inp, cell, stack, ext, markers, nerr, rewound, result, last, obs,
          emitter

vars == <<inp, cell, stack, ext, markers, nerr, rewound, result, last, obs,
          emitter>>

\* ------------------------------------------------------------- bounds

\* Longest input of a session.
MaxLen == 1
\* Deepest chain of sessions: the root and MaxDepth - 1 nested with_ctx calls.
MaxDepth == 2
\* Most emits and saves of one parse, taken together.
MaxEvents == 3
\* How far past the end of its source a Stream is advanced, and how far past
\* the end of a text or a slice a cursor is called.
MaxPast == 2
\* Longest text or slice of the parses that are watched.
MaxText == 2
\* Most diagnostics given to one Emitter.
MaxDiags == 2

\* The batch a Stream pulls from its source.
BatchSize == 500

None == 0

Min(a, b) == IF a < b THEN a ELSE b

Max(a, b) == IF a < b THEN b ELSE a

\* ------------------------------------------------------------ cursors

Take(s, n) == SubSeq(s, 1, Min(n, Len(s)))

Drop(s, n) == SubSeq(s, Min(n, Len(s)) + 1, Len(s))

\* char::len_utf8
Utf8Len(c) == IF c = 1 THEN 1 ELSE 2

\* str::len: the length in bytes
RECURSIVE StrLen(_)
StrLen(s) == IF s = <<>> THEN 0 ELSE Utf8Len(Head(s)) + StrLen(Tail(s))

\* self.get_unchecked(offset..).chars().next(): the scalar that starts at byte
\* offset, for an offset on a scalar boundary below the length.
RECURSIVE CharAt(_, _)
CharAt(s, offset) ==
    IF offset < Utf8Len(Head(s)) THEN Head(s)
    ELSE CharAt(Tail(s), offset - Utf8Len(Head(s)))

\* A next that takes every scalar for one byte long.
StrNextOneByte(s, offset) ==
    IF offset < StrLen(s)
    THEN [off |-> offset + 1, tok |-> CharAt(s, offset)]
    ELSE [off |-> offset, tok |-> None]

\* <&str as Input>::next
StrNext(s, offset) ==
    IF offset < StrLen(s)
    THEN LET c == CharAt(s, offset)
         IN  [off |-> offset + Utf8Len(c), tok |-> c]
    ELSE [off |-> offset, tok |-> None]

\* The bytes of the text before its k-th scalar boundary.
StrBoundary(s, k) == StrLen(Take(s, k))

\* The scalars of the text that lie before byte offset, an offset on a scalar
\* boundary.
RECURSIVE StrIndex(_, _)
StrIndex(s, offset) ==
    IF s = <<>> \/ offset < Utf8Len(Head(s)) THEN 0
    ELSE 1 + StrIndex(Tail(s), offset - Utf8Len(Head(s)))

\* <&str as SliceInput>::slice, of a range of scalar boundaries
StrSlice(s, from, to) == SubSeq(s, StrIndex(s, from) + 1, StrIndex(s, to))

\* A reference into a slice is the place of the element it points at: 1 for
\* the first one.  <[T]>::get
SliceGet(s, offset) == IF offset < Len(s) THEN offset + 1 ELSE None

\* The token a reference into the slice points at.
Deref(s, ref) == s[ref]

\* Option<&T>::cloned
Cloned(s, ref) == IF ref = None THEN None ELSE Deref(s, ref)

\* A next_ref that goes one past an offset beyond the end.
SliceNextRefPastEnd(s, offset) ==
    [off |-> offset + 1, tok |-> SliceGet(s, offset)]

\* <&[T] as BorrowInput>::next_ref: the next offset and a reference to the
\* token.
SliceNextRef(s, offset) ==
    IF SliceGet(s, offset) # None
    THEN [off |-> offset + 1, tok |-> SliceGet(s, offset)]
    ELSE [off |-> offset, tok |-> None]

\* A next that returns the token after the one next_ref points at.
SliceNextOffByOne(s, offset) ==
    LET r == SliceNextRef(s, offset)
    IN  [off |-> r.off, tok |-> Cloned(s, SliceGet(s, r.off))]

\* <&[T] as Input>::next
SliceNext(s, offset) ==
    LET r == SliceNextRef(s, offset)
    IN  [off |-> r.off, tok |-> Cloned(s, r.tok)]

\* <&[T] as SliceInput>::slice
SliceSlice(s, from, to) == SubSeq(s, from + 1, to)

\* The test that decides whether <&Stream<I> as Input>::next pulls.
StreamNeedsPull(vec, offset) == Len(vec) < offset

\* What next returns as the next offset of a Stream.
StreamNextOffset(offset, tok) == offset + 1

\* Cell::new((Vec::new(), None)): what the cell of a Stream holds while a next
\* works on its content.
Placeholder == [vec |-> <<>>, iter |-> <<>>, some |-> FALSE]

\* A next that leaves the cell as it is while it works and forgets the second
\* swap.
StreamNextNoSwapBack(c, offset) ==
    LET other == c
        pull  == StreamNeedsPull(other.vec, offset)
        vec   == IF pull THEN other.vec \o Take(other.iter, BatchSize) ELSE other.vec
        tok   == IF offset < Len(vec) THEN vec[offset + 1] ELSE None
    IN  [off   |-> StreamNextOffset(offset, tok),
         tok   |-> tok,
         cell  |-> Placeholder,
         pulls |-> IF pull THEN 1 ELSE 0]

\* <&Stream<I> as Input>::next: the content of the cell is swapped out (other)
\* and the placeholder in, the buffer extended by one batch when the test says
\* so, the token cloned, the content swapped back.  A pull without an iterator
\* panics (expect), with the placeholder still in the cell.
StreamNext(c, offset) ==
    LET other == c
        pull  == StreamNeedsPull(other.vec, offset)
        panic == pull /\ ~other.some
        vec   == IF pull THEN other.vec \o Take(other.iter, BatchSize) ELSE other.vec
        iter  == IF pull THEN Drop(other.iter, BatchSize) ELSE other.iter
        tok   == IF offset < Len(vec) THEN vec[offset + 1] ELSE None
    IN  [off   |-> StreamNextOffset(offset, tok),
         tok   |-> IF panic THEN None ELSE tok,
         cell  |-> IF panic THEN Placeholder
                   ELSE [vec |-> vec, iter |-> iter, some |-> other.some],
         pulls |-> IF pull THEN 1 ELSE 0]

RECURSIVE InputNext(_, _, _)

\* A wrapper that advances from the start of the inner cursor whatever the
\* offset.
WithContextNextFromStart(w, c, offset) == InputNext(w.inner, c, 0)

\* <WithContext<Ctx, I> as Input>::next
WithContextNext(w, c, offset) == InputNext(w.inner, c, offset)

\* Input::next of the session's cursor: the result, the cell afterwards and
\* the number of pulls made.
InputNext(i, c, offset) ==
    IF i.kind = "ctx" THEN WithContextNext(i, c, offset)
    ELSE IF i.kind = "stream" THEN StreamNext(c, offset)
    ELSE LET r == IF i.kind = "str" THEN StrNext(i.toks, offset)
                  ELSE SliceNext(i.toks, offset)
         IN  [off |-> r.off, tok |-> r.tok, cell |-> c, pulls |-> 0]

RECURSIVE InputNextRef(_, _)

\* <WithContext<Ctx, I> as BorrowInput>::next_ref
WithContextNextRef(w, offset) == InputNextRef(w.inner, offset)

\* BorrowInput::next_ref, of a slice or a wrapper of one
InputNextRef(i, offset) ==
    IF i.kind = "ctx" THEN WithContextNextRef(i, offset)
    ELSE SliceNextRef(i.toks, offset)

RECURSIVE InputStart(_)

\* <WithContext<Ctx, I> as Input>::start
WithContextStart(w) == InputStart(w.inner)

\* Input::start
InputStart(i) == IF i.kind = "ctx" THEN WithContextStart(i) ELSE 0

\* WithContext::new
WithContext(ctx, i) == [kind |-> "ctx", ctx |-> ctx, inner |-> i]

\* The cursor below the wrapper, if there is one.
Inner(i) == IF i.kind = "ctx" THEN i.inner ELSE i

\* The cursors that lend their tokens (BorrowInput): a slice and its wrapper.
Borrows(i) == Inner(i).kind = "slice"

\* The cursors that give slices (SliceInput): a text, a slice and their wrappers.
Slices(i) == Inner(i).kind \in {"str", "slice"}

\* Input::span: the start and the end of the range and the context of the
\* cursor, none (0) but for a wrapper.
InputSpan(i, from, to) == <<from, to, IF i.kind = "ctx" THEN i.ctx ELSE 0>>

\* SliceInput::slice, which a wrapper hands to the cursor it wraps
InputSlice(i, from, to) ==
    IF Inner(i).kind = "str" THEN StrSlice(Inner(i).toks, from, to)
    ELSE SliceSlice(Inner(i).toks, from, to)

\* The end of a text or a slice: str::len, <[T]>::len
InputLen(i) ==
    IF Inner(i).kind = "str" THEN StrLen(Inner(i).toks) ELSE Len(Inner(i).toks)

\* ------------------------------------------------------------ session

Top == stack[Len(stack)]

Active == Len(stack) >= 1

\* The object a session's state field leads to: its own value (Err(state)),
\* or the object it borrows (Ok(&mut state)): the caller's, at 0, or the
\* field of the session at that depth.
StateAt(stk, e, d) ==
    LET st == stk[d].state
    IN  IF st.own THEN st.val
        ELSE IF st.at = 0 THEN e ELSE stk[st.at].state.val

\* InputRef::state
StateOf(d) == StateAt(stack, ext, d)

\* InputRef::new
NewSession(i, st) ==
    [offset |-> InputStart(i), errors |-> <<>>, ctx |-> 0, state |-> st]

\* A with_ctx that gives the sub-session a copy of an owned state.
SubStateClone(parent, d) ==
    IF parent.state.own
    THEN [own |-> TRUE, val |-> parent.state.val, at |-> 0]
    ELSE [own |-> FALSE, val |-> 0, at |-> parent.state.at]

\* The state field with_ctx gives the sub-session: Ok(*state) of a borrowed
\* state, Ok(state) of an owned one.
SubState(parent, d) ==
    IF parent.state.own
    THEN [own |-> FALSE, val |-> 0, at |-> d]
    ELSE [own |-> FALSE, val |-> 0, at |-> parent.state.at]

\* A with_ctx that builds the sub-session with a new, empty buffer.
SubSessionEmpty(parent, d, new_ctx) ==
    [offset |-> parent.offset,
     errors |-> <<>>,
     ctx    |-> new_ctx,
     state  |-> SubState(parent, d)]

\* The sub-session with_ctx builds.
SubSession(parent, d, new_ctx) ==
    [offset |-> parent.offset,
     errors |-> parent.errors,
     ctx    |-> new_ctx,
     state  |-> SubState(parent, d)]

\* A with_ctx that clones the errors for the sub-session and keeps its own.
ParentDuringClone(parent) == parent

\* The parent while the body runs: mem::take left its errors empty.
ParentDuring(parent) == [parent EXCEPT !.errors = <<>>]

\* A with_ctx that does not take the errors back from the sub-session.
ParentAfterDropErrors(parent, sub) == [parent EXCEPT !.offset = sub.offset]

\* A with_ctx that also takes the sub-session's context.
ParentAfterLeakCtx(parent, sub) ==
    [parent EXCEPT !.offset = sub.offset, !.errors = sub.errors, !.ctx = sub.ctx]

\* The parent after the body returned.
ParentAfter(parent, sub) ==
    [parent EXCEPT !.offset = sub.offset, !.errors = sub.errors]

\* Vec::truncate
Truncate(v, n) == IF n < Len(v) THEN SubSeq(v, 1, n) ELSE v

\* InputRef::save
SaveMarker(s) == [offset |-> s.offset, err_count |-> Len(s.errors)]

\* A rewind that leaves the error buffer alone.
RewindSessionKeepErrors(s, m) == [s EXCEPT !.offset = m.offset]

\* A rewind that leaves the offset alone.
RewindSessionKeepOffset(s, m) == [s EXCEPT !.errors = Truncate(s.errors, m.err_count)]

\* InputRef::rewind
RewindSession(s, m) ==
    [s EXCEPT !.errors = Truncate(s.errors, m.err_count), !.offset = m.offset]

\* An emit that puts the error in front of the others.
EmitSessionFront(s, e) == [s EXCEPT !.errors = <<e>> \o s.errors]

\* InputRef::emit
EmitSession(s, e) == [s EXCEPT !.errors = Append(s.errors, e)]

\* The error of the n-th emit, made at depth d; its number and its depth.
MkError(n, d) == 10 * n + d

ErrSeq(e) == e \div 10

ErrDepth(e) == e % 10

\* What the model remembers of the last operation: its name (op) for a next, a
\* rewind, a with_ctx entry or exit and a write of the state, "op" for every
\* other one; a next's offset (arg), token (tok) and pulls; a rewind's marker
\* (arg), the length of the buffer before it (pre), whether it moved the
\* offset and cut the buffer (chg) and whether it cut an error of a
\* sub-session (sub); for a with_ctx entry the length of the caller's buffer
\* (pre); for a with_ctx exit the sub-session's last offset (arg) and whether
\* the body had moved the offset (chg); for a write its value (arg).
NoLast == [op |-> "op", arg |-> 0, tok |-> None, pulls |-> 0, pre |-> 0,
           chg |-> FALSE, sub |-> FALSE]

\* Emitter::new; live until errors() consumes it.
EmitterNew == [emitted |-> <<>>, live |-> TRUE]

\* An emit that keeps only the newest diagnostic.
EmitterPushOver(em, err) == [em EXCEPT !.emitted = <<err>>]

\* Emitter::emit: self.emitted.push(err)
EmitterPush(em, err) == [em EXCEPT !.emitted = Append(em.emitted, err)]

\* What the caller of the last operation holds, kept for the parses that are
\* watched (on): the operation (op), its argument (arg: the offset advanced
\* from, the error emitted, the marker, the start of a span or a range), the
\* predicate of a skip_while (f), and what it returned: an offset (off), a
\* token or a reference (tok), a slice or a span (out); the pulls it made of
\* the source of a Stream.
NoObs == [on |-> FALSE, op |-> "op", arg |-> 0, f |-> {}, off |-> 0, tok |-> None,
          out |-> <<>>, pulls |-> 0]

Watched == [NoObs EXCEPT !.on = TRUE]

Observe(o) == IF obs.on THEN [o EXCEPT !.on = TRUE] ELSE obs

SetTop(s) == [stack EXCEPT ![Len(stack)] = s]

\* The predicates skip_while is called with: membership in a set of tokens.
Tokens == {1, 2}

\* The loop of InputRef::skip_while from offset offs: where it stops, and the
\* cell and the pulls made by then.
RECURSIVE SkipLoop(_, _, _, _, _)
SkipLoop(i, c, offs, f, pulls) ==
    LET r == InputNext(i, c, offs)
    IN  IF r.tok = None \/ r.tok \notin f
        THEN [off |-> offs, cell |-> r.cell, pulls |-> pulls + r.pulls]
        ELSE SkipLoop(i, r.cell, r.off, f, pulls + r.pulls)

\* A Stream session is advanced at most MaxPast tokens past the end.
MayAdvance == inp.kind = "stream" => Top.offset < Len(inp.toks) + MaxPast

\* A Stream session calls with_ctx within MaxPast tokens of the start.
MayBranch == inp.kind = "stream" => Top.offset <= MaxPast

\* ------------------------------------------------------------ actions

\* InputRef::next
Next_ ==
    /\ Active /\ MayAdvance
    /\ LET r == InputNext(inp, cell, Top.offset)
       IN  /\ stack' = SetTop([Top EXCEPT !.offset = r.off])
           /\ cell' = r.cell
           /\ last' = [NoLast EXCEPT !.op = "next", !.arg = Top.offset,
                                     !.tok = r.tok, !.pulls = r.pulls]
           /\ obs' = Observe([NoObs EXCEPT !.op = "next", !.arg = Top.offset,
                      !.off = r.off, !.tok = r.tok, !.pulls = r.pulls])
    /\ UNCHANGED <<emitter, inp, ext, markers, nerr, rewound, result>>

\* InputRef::next_ref, of a cursor that lends its tokens
NextRef ==
    /\ Active /\ Borrows(inp)
    /\ LET r == InputNextRef(inp, Top.offset)
       IN  /\ stack' = SetTop([Top EXCEPT !.offset = r.off])
           /\ obs' = Observe([NoObs EXCEPT !.op = "next_ref", !.arg = Top.offset,
                      !.off = r.off, !.tok = r.tok])
    /\ last' = NoLast
    /\ UNCHANGED <<emitter, inp, cell, ext, markers, nerr, rewound, result>>

\* A skip that goes one on whatever the cursor returns.
SkipOne ==
    /\ Active /\ MayAdvance
    /\ LET r == InputNext(inp, cell, Top.offset)
       IN  /\ stack' = SetTop([Top EXCEPT !.offset = Top.offset + 1])
           /\ cell' = r.cell
           /\ obs' = Observe([NoObs EXCEPT !.op = "skip", !.arg = Top.offset,
                      !.pulls = r.pulls])
    /\ last' = NoLast
    /\ UNCHANGED <<emitter, inp, ext, markers, nerr, rewound, result>>

\* InputRef::skip
Skip ==
    /\ Active /\ MayAdvance
    /\ LET r == InputNext(inp, cell, Top.offset)
       IN  /\ stack' = SetTop([Top EXCEPT !.offset = r.off])
           /\ cell' = r.cell
           /\ obs' = Observe([NoObs EXCEPT !.op = "skip", !.arg = Top.offset,
                      !.pulls = r.pulls])
    /\ last' = NoLast
    /\ UNCHANGED <<emitter, inp, ext, markers, nerr, rewound, result>>

\* InputRef::skip_while
SkipWhile ==
    /\ Active
    /\ \E f \in SUBSET Tokens :
         LET r == SkipLoop(inp, cell, Top.offset, f, 0)
         IN  /\ stack' = SetTop([Top EXCEPT !.offset = r.off])
             /\ cell' = r.cell
             /\ obs' = Observe([NoObs EXCEPT !.op = "skip_while", !.arg = Top.offset,
                        !.f = f, !.pulls = r.pulls])
    /\ last' = NoLast
    /\ UNCHANGED <<emitter, inp, ext, markers, nerr, rewound, result>>

\* A peek that keeps the offset the cursor returns.
PeekConsumes ==
    /\ Active
    /\ LET r == InputNext(inp, cell, Top.offset)
       IN  /\ cell' = r.cell
           /\ stack' = SetTop([Top EXCEPT !.offset = r.off])
           /\ obs' = Observe([NoObs EXCEPT !.op = "peek", !.arg = Top.offset,
                      !.tok = r.tok, !.pulls = r.pulls])
    /\ last' = NoLast
    /\ UNCHANGED <<emitter, inp, ext, markers, nerr, rewound, result>>

\* InputRef::peek
Peek ==
    /\ Active
    /\ LET r == InputNext(inp, cell, Top.offset)
       IN  /\ cell' = r.cell
           /\ obs' = Observe([NoObs EXCEPT !.op = "peek", !.arg = Top.offset,
                      !.tok = r.tok, !.pulls = r.pulls])
    /\ last' = NoLast
    /\ UNCHANGED <<emitter, inp, stack, ext, markers, nerr, rewound, result>>

\* InputRef::emit
Emit ==
    /\ Active /\ nerr + Len(markers) < MaxEvents
    /\ nerr' = nerr + 1
    /\ stack' = SetTop(EmitSession(Top, MkError(nerr + 1, Len(stack))))
    /\ last' = NoLast
    /\ obs' = Observe([NoObs EXCEPT !.op = "emit", !.arg = MkError(nerr + 1, Len(stack))])
    /\ UNCHANGED <<emitter, inp, cell, ext, markers, rewound, result>>

\* InputRef::save.  Beside the marker the model keeps the buffer it was
\* taken of (errs), whether the root session took it (root) and what has
\* happened since (hist): 0 only advances, emits, reads, saves and rewinds to
\* this or a newer marker, 1 also with_ctx calls, 2 also a rewind to an older
\* marker.
Save ==
    /\ Active /\ nerr + Len(markers) < MaxEvents
    /\ LET m == SaveMarker(Top)
       IN  markers' = Append(markers,
               [offset |-> m.offset, err_count |-> m.err_count,
                errs |-> Top.errors, root |-> (Len(stack) = 1), hist |-> 0])
    /\ last' = NoLast
    /\ obs' = Observe([NoObs EXCEPT !.op = "save", !.arg = Len(markers) + 1])
    /\ UNCHANGED <<emitter, inp, cell, stack, ext, nerr, rewound, result>>

\* The Marker kept as the k-th.
MarkerOf(k) == [offset |-> markers[k].offset, err_count |-> markers[k].err_count]

\* InputRef::rewind with the k-th marker
RewindTo(k) ==
    /\ Active
    /\ LET s == RewindSession(Top, MarkerOf(k))
       IN  /\ stack' = SetTop(s)
           /\ last' = [NoLast EXCEPT
                  !.op = "rewind", !.arg = k, !.pre = Len(Top.errors),
                  !.chg = (s.offset # Top.offset /\ s.errors # Top.errors),
                  !.sub = \E j \in 1..Len(Top.errors) :
                              /\ j > Len(s.errors)
                              /\ ErrDepth(Top.errors[j]) > Len(stack)]
    /\ markers' = [j \in 1..Len(markers) |->
           [markers[j] EXCEPT !.hist = IF j > k THEN 2 ELSE @]]
    /\ rewound' = TRUE
    /\ obs' = Observe([NoObs EXCEPT !.op = "rewind", !.arg = k])
    /\ UNCHANGED <<emitter, inp, cell, ext, nerr, result>>

\* InputRef::rewind, with any marker saved so far
Rewind == \E k \in 1..Len(markers) : RewindTo(k)

\* The contexts with_ctx is called with by a session of context c: one that
\* differs from c (a root session has the default, 0).
Contexts(c) == {c + 1}

\* InputRef::with_ctx up to the call of the body f
WithCtxEnter ==
    /\ Active /\ Len(stack) < MaxDepth /\ MayBranch
    /\ \E new_ctx \in Contexts(Top.ctx) :
         stack' = Append(SetTop(ParentDuring(Top)),
                         SubSession(Top, Len(stack), new_ctx))
    /\ markers' = [j \in 1..Len(markers) |-> [markers[j] EXCEPT !.hist = Max(@, 1)]]
    /\ last' = [NoLast EXCEPT !.op = "enter", !.pre = Len(Top.errors)]
    /\ obs' = Observe([NoObs EXCEPT !.op = "enter"])
    /\ UNCHANGED <<emitter, inp, cell, ext, nerr, rewound, result>>

\* InputRef::with_ctx from the return of the body f
WithCtxExit ==
    /\ Len(stack) >= 2
    /\ LET d == Len(stack)
       IN  /\ stack' = [SubSeq(stack, 1, d - 1) EXCEPT
                           ![d - 1] = ParentAfter(stack[d - 1], stack[d])]
           /\ markers' = [j \in 1..Len(markers) |->
                  [markers[j] EXCEPT !.hist = Max(@, 1)]]
           /\ last' = [NoLast EXCEPT !.op = "exit", !.arg = stack[d].offset,
                          !.chg = (stack[d].offset # stack[d - 1].offset)]
    /\ obs' = Observe([NoObs EXCEPT !.op = "exit"])
    /\ UNCHANGED <<emitter, inp, cell, ext, nerr, rewound, result>>

\* The offsets a session has to hand: the start of the input and the offsets
\* of the markers.
Held == {InputStart(inp)} \cup {markers[k].offset : k \in 1..Len(markers)}

\* What a read of the session leaves as it is: everything but what the caller
\* holds.
Reads == <<emitter, inp, cell, stack, ext, markers, nerr, rewound, result>>

\* InputRef::offset
Offset ==
    /\ Active
    /\ obs' = Observe([NoObs EXCEPT !.op = "offset", !.off = Top.offset])
    /\ last' = NoLast
    /\ UNCHANGED Reads

\* InputRef::span_since
SpanSince ==
    /\ Active
    /\ \E before \in Held :
         obs' = Observe([NoObs EXCEPT !.op = "span_since", !.arg = before,
                    !.out = InputSpan(inp, before, Top.offset)])
    /\ last' = NoLast
    /\ UNCHANGED Reads

\* InputRef::slice, of a range that ends at the session's offset
Slice ==
    /\ Active /\ Slices(inp)
    /\ \E from \in Held :
         /\ from <= Top.offset
         /\ obs' = Observe([NoObs EXCEPT !.op = "slice", !.arg = from,
                    !.out = InputSlice(inp, from, Top.offset)])
    /\ last' = NoLast
    /\ UNCHANGED Reads

\* InputRef::slice_from
SliceFrom ==
    /\ Active /\ Slices(inp)
    /\ \E from \in Held :
         obs' = Observe([NoObs EXCEPT !.op = "slice_from", !.arg = from,
                    !.out = InputSlice(inp, from, InputLen(inp))])
    /\ last' = NoLast
    /\ UNCHANGED Reads

\* InputRef::slice_trailing
SliceTrailing ==
    /\ Active /\ Slices(inp)
    /\ obs' = Observe([NoObs EXCEPT !.op = "slice_trailing", !.arg = Top.offset,
               !.out = InputSlice(inp, Top.offset, InputLen(inp))])
    /\ last' = NoLast
    /\ UNCHANGED Reads

\* The offsets a caller has to call a text or a slice cursor with: the start,
\* the offset the last operation returned, the session's, the end and what
\* lies beyond it and, for a slice, every offset.
Offsets(i) ==
    {InputStart(i), obs.off, Top.offset}
        \cup InputLen(i)..(InputLen(i) + MaxPast)
        \cup (IF Borrows(i) THEN 0..InputLen(i) ELSE {})

\* Input::start, called on the cursor
CursorStart ==
    /\ obs' = Observe([NoObs EXCEPT !.op = "start", !.off = InputStart(inp)])
    /\ UNCHANGED <<emitter, inp, cell, stack, ext, markers, nerr, rewound, result, last>>

\* Input::next, called on the cursor
CursorNext ==
    /\ Active
    /\ \E offset \in Offsets(inp) :
         LET r == InputNext(inp, cell, offset)
         IN  /\ cell' = r.cell
             /\ obs' = Observe([NoObs EXCEPT !.op = "advance", !.arg = offset,
                        !.off = r.off, !.tok = r.tok])
    /\ UNCHANGED <<emitter, inp, stack, ext, markers, nerr, rewound, result, last>>

\* BorrowInput::next_ref, called on the cursor
CursorNextRef ==
    /\ Active /\ Borrows(inp)
    /\ \E offset \in Offsets(inp) :
         LET r == InputNextRef(inp, offset)
         IN  obs' = Observe([NoObs EXCEPT !.op = "advance_ref", !.arg = offset,
                     !.off = r.off, !.tok = r.tok])
    /\ UNCHANGED <<emitter, inp, cell, stack, ext, markers, nerr, rewound, result, last>>

\* Emitter::emit
EmitterEmit ==
    /\ emitter.live /\ Len(emitter.emitted) < MaxDiags
    /\ LET err == MkError(Len(emitter.emitted) + 1, 0)
       IN  /\ emitter' = EmitterPush(emitter, err)
           /\ obs' = Observe([NoObs EXCEPT !.op = "emitter_emit", !.arg = err])
    /\ last' = NoLast
    /\ UNCHANGED <<inp, cell, stack, ext, markers, nerr, rewound, result>>

\* Emitter::errors, which consumes the Emitter
EmitterErrors ==
    /\ emitter.live
    /\ emitter' = [emitter EXCEPT !.live = FALSE]
    /\ obs' = Observe([NoObs EXCEPT !.op = "errors", !.out = emitter.emitted])
    /\ last' = NoLast
    /\ UNCHANGED <<inp, cell, stack, ext, markers, nerr, rewound, result>>

\* The values of the user state.
StateVals == {0, 1}

\* A write of v through InputRef::state
StateSet ==
    /\ Active
    /\ \E v \in StateVals :
         LET st == Top.state
         IN  /\ v # StateOf(Len(stack))
             /\ IF st.own
                THEN /\ stack' = SetTop([Top EXCEPT !.state.val = v])
                     /\ ext' = ext
                ELSE IF st.at = 0
                THEN /\ ext' = v
                     /\ stack' = stack
                ELSE /\ stack' = [stack EXCEPT ![st.at].state.val = v]
                     /\ ext' = ext
             /\ last' = [NoLast EXCEPT !.op = "set", !.arg = v]
    /\ obs' = Observe([NoObs EXCEPT !.op = "set"])
    /\ UNCHANGED <<emitter, inp, cell, markers, nerr, rewound, result>>

\* InputRef::into_errs, of the root session
IntoErrs ==
    /\ Len(stack) = 1
    /\ result' = Top.errors
    /\ stack' = <<>>
    /\ last' = NoLast
    /\ obs' = Observe([NoObs EXCEPT !.op = "into_errs"])
    /\ UNCHANGED <<emitter, inp, cell, ext, markers, nerr, rewound>>

\* ------------------------------------------------------ specification

\* The inputs: every length up to MaxLen of the tokens 1, 2, 1, ...
InputToks(n) == [k \in 1..n |-> IF k % 2 = 1 THEN 1 ELSE 2]

\* The state a root session is made with: owned, or borrowed from the caller.
Owned == [own |-> TRUE, val |-> 0, at |-> 0]

Borrowed == [own |-> FALSE, val |-> 0, at |-> 0]

\* The state after InputRef::new, for one of the cursors and a state that is
\* one of roots; o says whether the parse is watched.
InitOver(cursors, roots, o) ==
    /\ inp \in cursors
    /\ cell = [vec |-> <<>>, iter |-> IF inp.kind = "stream" THEN inp.toks ELSE <<>>,
               some |-> TRUE]
    /\ \E st \in roots : stack = <<NewSession(inp, st)>>
    /\ ext = 0
    /\ markers = <<>>
    /\ nerr = 0
    /\ rewound = FALSE
    /\ result = <<>>
    /\ last = NoLast
    /\ obs = o
    /\ emitter = EmitterNew

\* The same for a cursor of one of the kinds over one of the inputs, not
\* watched.
InitWith(kinds, inputs, roots) ==
    InitOver({[kind |-> k, toks |-> toks] : k \in kinds, toks \in inputs}, roots, NoObs)

\* A session over a slice that owns its state and leaves it alone.
Init == InitWith({"slice"}, {InputToks(n) : n \in 0..MaxLen}, {Owned})

Next ==
    \/ Next_
    \/ NextRef
    \/ Skip
    \/ SkipWhile
    \/ Peek
    \/ Emit
    \/ Save
    \/ Rewind
    \/ WithCtxEnter
    \/ WithCtxExit
    \/ IntoErrs

Spec == Init /\ [][Next]_vars

\* A session over a slice whose state is owned or borrowed and is written to by
\* the session and its sub-sessions, which also advance and backtrack.
InitState == InitWith({"slice"}, {InputToks(MaxLen)}, {Owned, Borrowed})

NextState ==
    \/ StateSet
    \/ Next_
    \/ Save
    \/ Rewind
    \/ WithCtxEnter
    \/ WithCtxExit

SpecState == InitState /\ [][NextState]_vars

\* The sources of a Stream: the tokens 1, 2, ..., n for the lengths n around
\* the batch size.
StreamLens == {0, 1, 2, BatchSize - 1, BatchSize, BatchSize + 1, 2 * BatchSize + 1}

\* A session over a Stream that reads it from the start.
InitStream == InitWith({"stream"}, {[k \in 1..n |-> k] : n \in StreamLens}, {Owned})

NextStream ==
    \/ Next_
    \/ Peek

SpecStream == InitStream /\ [][NextStream]_vars

\* The texts and slices of the watched parses: every sequence of tokens up to
\* MaxText long.
Texts == UNION {[1..n -> Tokens] : n \in 0..MaxText}

\* A text, a slice and the wrappers of them.
Cursors ==
    LET plain == {[kind |-> k, toks |-> t] : k \in {"str", "slice"}, t \in Texts}
    IN  plain \cup {WithContext(7, i) : i \in plain}

\* The cursors called directly, and a session over one that only goes forward.
InitCursor == InitOver(Cursors, {Owned}, Watched)

NextCursor ==
    \/ CursorStart
    \/ CursorNext
    \/ CursorNextRef
    \/ Next_
    \/ NextRef
    \/ Skip
    \/ SkipWhile
    \/ Peek

SpecCursor == InitCursor /\ [][NextCursor]_vars

\* The cursors a session is made over: a text, a slice, the wrappers of them
\* and a Stream, whose source is a sequence of tokens.
SessionCursors == Cursors \cup {[kind |-> "stream", toks |-> t] : t \in Texts}

\* A session that reads its input forward and emits, watched.
InitScan == InitOver(SessionCursors, {Owned}, Watched)

NextScan ==
    \/ Next_
    \/ NextRef
    \/ Skip
    \/ SkipWhile
    \/ Peek
    \/ Emit

SpecScan == InitScan /\ [][NextScan]_vars

\* A session over a text or a slice of the tokens 1, 2, 1, ... that reads
\* forward, emits, saves and rewinds, watched.
InitMono ==
    InitOver({[kind |-> k, toks |-> InputToks(n)] :
                 k \in {"str", "slice"}, n \in 0..MaxText},
             {Owned}, Watched)

NextMono ==
    \/ Next_
    \/ NextRef
    \/ Skip
    \/ SkipWhile
    \/ Peek
    \/ Emit
    \/ Save
    \/ Rewind

SpecMono == InitMono /\ [][NextMono]_vars

\* The cursors of the sessions whose every operation is watched: a text, a
\* slice, a wrapped slice and a Stream over the tokens 1, 2, 1, ...
FrameCursors ==
    LET plain == {[kind |-> k, toks |-> InputToks(n)] :
                     k \in {"str", "slice", "stream"}, n \in 0..MaxText}
    IN  plain \cup {WithContext(7, i) : i \in {j \in plain : j.kind = "slice"}}

\* A session that reads forward, emits, saves, writes its state and is read,
\* watched.
InitFrame == InitOver(FrameCursors, {Owned, Borrowed}, Watched)

NextFrame ==
    \/ Next_
    \/ NextRef
    \/ Skip
    \/ SkipWhile
    \/ Peek
    \/ Emit
    \/ Save
    \/ StateSet
    \/ Offset
    \/ SpanSince
    \/ Slice
    \/ SliceFrom
    \/ SliceTrailing

SpecFrame == InitFrame /\ [][NextFrame]_vars

\* A session that emits, backtracks and calls sub-sessions, beside an Emitter
\* that is given diagnostics; watched.
InitEmitter ==
    InitOver({[kind |-> "slice", toks |-> InputToks(MaxLen)]}, {Owned}, Watched)

NextEmitter ==
    \/ EmitterEmit
    \/ EmitterErrors
    \/ Emit
    \/ Save
    \/ Rewind
    \/ WithCtxEnter
    \/ WithCtxExit

SpecEmitter == InitEmitter /\ [][NextEmitter]_vars

\* A session over a text, a slice or a Stream that advances, saves and
\* rewinds.
InitReplay ==
    InitOver({[kind |-> k, toks |-> t] : k \in {"str", "slice", "stream"}, t \in Texts},
             {Owned}, NoObs)

NextReplay ==
    \/ Next_
    \/ Save
    \/ Rewind

SpecReplay == InitReplay /\ [][NextReplay]_vars

\* A session over a Stream and its sub-sessions, which all advance over the
\* one cell.
InitShare ==
    InitOver({[kind |-> "stream", toks |-> [k \in 1..n |-> k]] : n \in StreamLens},
             {Owned}, NoObs)

NextShare ==
    \/ Next_
    \/ Skip
    \/ SkipWhile
    \/ Peek
    \/ WithCtxEnter
    \/ WithCtxExit

SpecShare == InitShare /\ [][NextShare]_vars

\* ------------------------------------------------------------- claims

\* The marker of the last rewind.
LastMarker == markers[last.arg]

\* The numbers of the errors of a buffer, in the buffer's order.
Seqs(errs) == [j \in 1..Len(errs) |-> ErrSeq(errs[j])]

\* C1: after m = save() and then only advances and emits (reads, saves and
\* rewinds to m or to a newer marker change nothing of this), rewind(m) leaves
\* the offset at m.offset and the error buffer m.err_count long.
C1_RewindExact ==
    (last.op = "rewind" /\ LastMarker.hist = 0) =>
        /\ Top.offset = LastMarker.offset
        /\ Len(Top.errors) = LastMarker.err_count

\* A rewind that moved the offset back and cut the buffer, to a marker since
\* whose save there were only advances and emits.
C1_Witness ==
    /\ last.op = "rewind" /\ LastMarker.hist = 0 /\ last.chg
    /\ last.pre > LastMarker.err_count

\* C2: a Stream over t0, t1, ..., t(n-1) returns (k + 1, Some(t_k)) for the
\* advance at every offset k < n.
C2_StreamInOrder ==
    (last.op = "next" /\ last.arg < Len(inp.toks)) =>
        /\ last.tok = inp.toks[last.arg + 1]
        /\ Top.offset = last.arg + 1

\* C3: a next of a Stream whose source is exhausted, at an offset with no
\* buffered entry, returns None and leaves the offset where it was.
C3_StreamEndKeepsOffset ==
    [][(last'.op = "next" /\ cell.iter = <<>> /\ Top.offset >= Len(cell.vec)) =>
          (last'.tok = None /\ Top'.offset = Top.offset)]_vars

\* C4: without rewinds, the errors into_errs returns, and the buffer of the
\* running session at every moment, hold every error emitted so far exactly
\* once and in the order of the emits, whatever the depth they were emitted at.
C4_ErrorsOnce ==
    ~rewound =>
        /\ Active => Seqs(Top.errors) = [j \in 1..nerr |-> j]
        /\ ~Active => Seqs(result) = [j \in 1..nerr |-> j]

\* The errors of a finished parse, one emitted by the root session and one by
\* the deepest sub-session.
C4_Witness ==
    /\ ~Active /\ ~rewound /\ Len(result) >= 2
    /\ \E j \in 1..Len(result) : ErrDepth(result[j]) = 1
    /\ \E j \in 1..Len(result) : ErrDepth(result[j]) = MaxDepth

\* C5, as claimed: when the body of with_ctx is invoked the sub-session's error
\* buffer is empty.
C5_SubStartsEmpty == last.op = "enter" => Len(Top.errors) = 0

\* C5, amended: when the body is invoked the sub-session holds the errors its
\* parent held at the call, and the parent's own buffer is empty.
C5_SubTakesBuffer ==
    last.op = "enter" =>
        /\ Len(Top.errors) = last.pre
        /\ stack[Len(stack) - 1].errors = <<>>

\* A sub-session that starts with an error of its parent.
C5_Witness == last.op = "enter" /\ Len(Top.errors) >= 1 /\ Len(stack) = 2

\* C6, as claimed: rewind(m) with any marker m the session saved, whatever
\* happened since, leaves the offset at m.offset and the buffer m.err_count long.
\* (A marker of the root session, rewound to by the root session.)
C6_AnyMarkerExact ==
    (last.op = "rewind" /\ LastMarker.root /\ Len(stack) = 1) =>
        /\ Top.offset = LastMarker.offset
        /\ Len(Top.errors) = LastMarker.err_count

\* C6, amended: rewind(m) with any marker leaves the offset at m.offset and the
\* buffer cut to m.err_count if it was longer, so as long as the shorter of its
\* length before and m.err_count; that is m.err_count unless a rewind to a
\* marker older than m came in between.
C6_RewindTruncates ==
    last.op = "rewind" =>
        /\ Top.offset = LastMarker.offset
        /\ Len(Top.errors) = Min(last.pre, LastMarker.err_count)
        /\ LastMarker.hist <= 1 => Len(Top.errors) = LastMarker.err_count

\* A rewind to a stale marker: the buffer was already shorter than its count.
C6_Witness ==
    /\ last.op = "rewind" /\ LastMarker.hist = 2
    /\ Len(Top.errors) < LastMarker.err_count

\* C7: rewind(m), with no rewind to a marker older than m since m was saved,
\* leaves the error buffer equal to the buffer at the save, whatever was
\* emitted since, in the session or in sub-sessions.
C7_RollbackRestoresBuffer ==
    (last.op = "rewind" /\ LastMarker.hist <= 1) => Top.errors = LastMarker.errs

\* The root session rewinds to a marker it saved with an error in the buffer,
\* after with_ctx calls, and discards an error emitted in a sub-session.
C7_Witness ==
    /\ last.op = "rewind" /\ LastMarker.hist = 1
    /\ LastMarker.root /\ Len(stack) = 1
    /\ last.sub /\ LastMarker.errs # <<>>

\* C8: when with_ctx returns the parent's offset is the sub-session's last
\* offset, and no step changes the context of a session: the parent's context
\* is what it was, not the sub-session's.
C8_ExitFrame ==
    [][/\ \A d \in 1..Min(Len(stack), Len(stack')) : stack'[d].ctx = stack[d].ctx
       /\ last'.op = "exit" =>
            /\ Top'.offset = Top.offset
            /\ Top'.ctx # Top.ctx]_vars

\* A with_ctx call of the root session returns, its body having moved the offset.
C8_Witness == last.op = "exit" /\ last.chg /\ Len(stack) = 1 /\ Top.ctx = 0

\* C9: a write through state() is seen through state() by every session of the
\* chain, and no other step (a sub-session's exit, a rewind) changes what any
\* session sees.
C9_StateShared ==
    [][\A d \in 1..Min(Len(stack), Len(stack')) :
          StateAt(stack', ext', d) =
              IF last'.op = "set" THEN last'.arg ELSE StateAt(stack, ext, d)]_vars

\* The deepest sub-session has written the state and the root session sees it.
C9_Witness ==
    /\ last.op = "set" /\ Len(stack) = MaxDepth
    /\ StateOf(1) = last.arg /\ last.arg # 0

\* C10: a next of a Stream at an offset with no buffered entry makes exactly
\* one pull, of at most BatchSize items; a next at a buffered offset makes none.
C10_StreamLazy ==
    [][last'.op = "next" =>
          IF Top.offset >= Len(cell.vec)
          THEN /\ last'.pulls = 1
               /\ Len(cell'.vec) - Len(cell.vec) <= BatchSize
          ELSE last'.pulls = 0 /\ cell' = cell]_vars

\* The calls of a cursor's advance: Input::next and BorrowInput::next_ref.
Advances == {"advance", "advance_ref"}

\* The tokens of the text or slice below the cursor.
Toks == Inner(inp).toks

\* C11: advance of a text or slice cursor at an offset at or beyond the end
\* (for a slice also beyond the length) returns (offset, None); the same call
\* again returns the same; and a session stays at its offset from the next()
\* that returned None on, whatever it advances with.
C11_EofIdempotent ==
    [][/\ (obs'.op \in Advances /\ obs'.arg >= InputLen(inp)) =>
              (obs'.off = obs'.arg /\ obs'.tok = None)
       /\ (obs.op \in Advances /\ obs.tok = None
              /\ obs'.op = obs.op /\ obs'.arg = obs.arg) =>
              (obs'.off = obs.off /\ obs'.tok = obs.tok)
       /\ (obs'.op = "next" /\ obs'.tok = None) =>
              (Top'.offset = Top.offset /\ Top.offset >= InputLen(inp))
       /\ Top.offset >= InputLen(inp) => Top'.offset = Top.offset]_vars

\* A slice cursor called beyond its length, with a session at the end of the
\* input whose next() returned None.
C11_Witness ==
    /\ Inner(inp).kind = "slice" /\ InputLen(inp) > 0
    /\ obs.op = "advance" /\ obs.arg > InputLen(inp)
    /\ Top.offset = InputLen(inp)

\* C14: advance of a text cursor at an offset reached from start() is at a
\* scalar boundary, the k-th; below the length it returns the scalar that
\* starts there, the (k+1)-th of the text, and the next boundary, which is the
\* offset plus the scalar's length in bytes; at the length, (length, None).
C14_TextTraversal ==
    (obs.op \in {"advance", "next"} /\ Inner(inp).kind = "str"
         /\ obs.arg <= InputLen(inp)) =>
        \E k \in 0..Len(Toks) :
            /\ obs.arg = StrBoundary(Toks, k)
            /\ IF k < Len(Toks)
               THEN /\ obs.tok = Toks[k + 1]
                    /\ obs.off = obs.arg + Utf8Len(Toks[k + 1])
                    /\ obs.off = StrBoundary(Toks, k + 1)
               ELSE obs.off = InputLen(inp) /\ obs.tok = None

\* The scalar after a two-byte scalar: its offset is not its index.
C14_Witness ==
    /\ inp = [kind |-> "str", toks |-> <<2, 1>>]
    /\ obs.op = "advance" /\ obs.arg = 2 /\ obs.off = 3 /\ obs.tok = 1

\* C15: at every offset the next of a slice cursor, and of a wrapper of one,
\* returns the offset next_ref returns and the token next_ref's reference
\* points at, None with None; and start, next and next_ref of a wrapper
\* return what those of the cursor it wraps return.
C15_BorrowOwned ==
    /\ (obs.op = "advance" /\ Borrows(inp)) =>
           LET r == InputNextRef(inp, obs.arg)
           IN  /\ obs.off = r.off
               /\ obs.tok = IF r.tok = None THEN None ELSE Deref(Toks, r.tok)
               /\ obs.arg >= Len(Toks) => obs.tok = None
    /\ (obs.op = "advance" /\ inp.kind = "ctx") =>
           LET r == InputNext(inp.inner, cell, obs.arg)
           IN  obs.off = r.off /\ obs.tok = r.tok
    /\ (obs.op = "advance_ref" /\ inp.kind = "ctx") =>
           LET r == InputNextRef(inp.inner, obs.arg)
           IN  obs.off = r.off /\ obs.tok = r.tok
    /\ (obs.op = "start" /\ inp.kind = "ctx") => obs.off = InputStart(inp.inner)

\* The next of a wrapped slice returned its second token, equal to the first.
C15_Witness ==
    /\ inp = WithContext(7, [kind |-> "slice", toks |-> <<1, 1>>])
    /\ obs.op = "advance" /\ obs.arg = 1 /\ obs.tok = 1 /\ obs.off = 2

\* C12: peek leaves the session's offset and error buffer as they are, and
\* the peek or the next() that follows a peek returns the token that peek
\* returned, for a text, a slice, a wrapper and a Stream.
C12_PeekStable ==
    [][/\ obs'.op = "peek" =>
              (Top'.offset = Top.offset /\ Top'.errors = Top.errors)
       /\ (obs.op = "peek" /\ obs'.op \in {"peek", "next"}) =>
              obs'.tok = obs.tok]_vars

\* A peek of a Stream session that pulled from the source and returned a
\* token, with an error in the buffer.
C12_Witness ==
    /\ inp.kind = "stream" /\ obs.op = "peek"
    /\ obs.pulls = 1 /\ obs.tok # None /\ Top.errors # <<>>

\* The place in the input of the token at an offset: the scalars before a
\* byte offset of a text, the offset itself otherwise.
Place(offset) ==
    IF Inner(inp).kind = "str" THEN StrIndex(Toks, offset) ELSE offset

\* The offset of a place.
OffsetOf(k) == IF Inner(inp).kind = "str" THEN StrBoundary(Toks, k) ELSE k

\* The place where the longest run of tokens in f that starts at place k ends.
RunEnd(k, f) ==
    CHOOSE j \in k..Len(Toks) :
        /\ \A m \in (k + 1)..j : Toks[m] \in f
        /\ j = Len(Toks) \/ Toks[j + 1] \notin f

\* C13: skip_while(p) leaves the offset before the first token of the input,
\* from the offset it started at, that fails p, or at the end of the input if
\* there is none, and leaves the error buffer as it is; for every cursor.
C13_SkipWhileMaximal ==
    [][obs'.op = "skip_while" =>
          /\ Top'.errors = Top.errors
          /\ Top'.offset =
                 IF Place(Top.offset) >= Len(Toks) THEN Top.offset
                 ELSE OffsetOf(RunEnd(Place(Top.offset), obs'.f))]_vars

\* The operations that go forward or stay.
Forward == {"next", "next_ref", "skip", "skip_while", "peek", "emit", "save"}

\* There is a token at the session's offset.
HasToken == Place(Top.offset) < Len(Toks)

\* C17: over a text or a slice, next, next_ref, skip, skip_while, peek, emit
\* and save never lower the offset, which never exceeds the length of the
\* input; next, next_ref and skip raise it exactly when there is a token to
\* return, skip_while exactly when the first token satisfies the predicate,
\* peek, emit and save never; and a step that lowers it is a rewind.
C17_OffsetMonotonic ==
    [][/\ obs'.op \in Forward => Top'.offset >= Top.offset
       /\ Top'.offset <= InputLen(inp)
       /\ obs'.op \in {"next", "next_ref"} =>
              /\ (Top'.offset > Top.offset) <=> (obs'.tok # None)
              /\ (obs'.tok # None) <=> HasToken
       /\ obs'.op = "skip" => ((Top'.offset > Top.offset) <=> HasToken)
       /\ obs'.op = "skip_while" =>
              ((Top'.offset > Top.offset) <=>
                   (HasToken /\ Toks[Place(Top.offset) + 1] \in obs'.f))
       /\ obs'.op \in {"peek", "emit", "save"} => Top'.offset = Top.offset
       /\ Top'.offset < Top.offset => obs'.op = "rewind"]_vars

\* After a rewind a text session has advanced over a two-byte scalar again.
C17_Witness ==
    /\ inp.kind = "str" /\ rewound
    /\ obs.op = "next" /\ obs.tok = 2 /\ Top.offset = obs.arg + 2

\* The user state the session sees.
SeenState == StateAt(stack, ext, Len(stack))

\* C18: emit(e) appends e to the error buffer and leaves the offset, the
\* context and the user state; next, next_ref, skip, skip_while and peek leave
\* the error buffer, the context and the user state; offset(), save(),
\* span_since and the slice operations leave the whole session.
C18_EffectsConfined ==
    [][/\ obs'.op = "emit" =>
              /\ Top'.errors = Append(Top.errors, obs'.arg)
              /\ Top'.offset = Top.offset
              /\ Top'.ctx = Top.ctx
              /\ SeenState' = SeenState
       /\ obs'.op \in {"next", "next_ref", "skip", "skip_while", "peek"} =>
              /\ Top'.errors = Top.errors
              /\ Top'.ctx = Top.ctx
              /\ SeenState' = SeenState
       /\ obs'.op \in {"offset", "save", "span_since", "slice", "slice_from",
                        "slice_trailing"} =>
              (stack' = stack /\ ext' = ext)]_vars

\* An emit onto an error already there, the session past the start of its
\* input and its state written.
C18_Witness ==
    /\ obs.op = "emit" /\ Len(Top.errors) >= 2
    /\ Top.offset > 0 /\ SeenState = 1

\* C16: Emitter::emit appends its diagnostic, no other operation (a session's
\* emit, save, rewind, with_ctx) changes what the Emitter holds, and errors()
\* returns it: every diagnostic given to the Emitter, once, in the order of
\* the emits.
C16_EmitterKeeps ==
    [][/\ obs'.op = "emitter_emit" =>
              emitter'.emitted = Append(emitter.emitted, obs'.arg)
       /\ obs'.op = "errors" => obs'.out = emitter.emitted
       /\ obs'.op \notin {"emitter_emit", "errors"} => emitter' = emitter
       /\ emitter'.emitted =
              [j \in 1..Len(emitter'.emitted) |-> MkError(j, 0)]]_vars

\* errors() returned two diagnostics after a rewind that cut the session's
\* own errors.
C16_Witness ==
    /\ obs.op = "errors" /\ Len(obs.out) = MaxDiags
    /\ rewound /\ nerr > 0 /\ Top.errors = <<>>

\* What an advance of the cursor at an offset returns.
AdvanceAt(offset) ==
    LET r == InputNext(inp, cell, offset)
    IN  <<r.off, r.tok>>

\* The offsets a rewind and the next() after it advance from: the markers'
\* and the session's own.
Replayed == {markers[k].offset : k \in 1..Len(markers)} \cup {Top.offset}

\* C19: what advance returns at an offset does not depend on the advances made
\* before: no operation changes what it returns at an offset the session has
\* saved or is at, so that the next() calls after a rewind return what they
\* returned before it; for a text, a slice and a Stream.
C19_ReplaySame ==
    [][\A offset \in Replayed : AdvanceAt(offset)' = AdvanceAt(offset)]_vars

\* C20: after every operation on a Stream, of a session or a sub-session of
\* it, the cell holds the buffer and the iterator, not the placeholder; the
\* buffer starts with what it was before; and the buffer followed by what is
\* left of the source is the source.
C20_StreamBuffer ==
    [][/\ cell'.some
       /\ Len(cell'.vec) >= Len(cell.vec)
       /\ SubSeq(cell'.vec, 1, Len(cell.vec)) = cell.vec
       /\ cell'.vec \o cell'.iter = inp.toks]_vars

\* A next() of a sub-session made the second pull from the source; its parent
\* has not moved.
C20_Witness ==
    /\ Len(stack) = 2 /\ last.op = "next" /\ last.pulls = 1
    /\ Len(cell.vec) > BatchSize /\ stack[1].offset < Top.offset

====
